---------------------------- MODULE Spec2Model ----------------------------
(***************************************************************************)
(* A model of the similarity engine of the secure plagiarism checker:      *)
(* the KMP pattern matcher (kmp.py), the three scoring strategies of       *)
(* plagiarism_score (kmp.py), the pairwise comparator of checker.py and    *)
(* the status labels of checker.py and backend/app.py.                     *)
(*                                                                         *)
(* Conventions.                                                            *)
(*  - A Python str is a sequence of one-character strings; indices in the  *)
(*    model's program variables (i, j, offsets) are zero-based as in the   *)
(*    code, so pattern[j] of the code is pattern[j + 1] here.              *)
(*  - A similarity percentage, a float rounded to two decimals in the      *)
(*    code, is the integer number of hundredths of a percent (50.0 is      *)
(*    5000, 96.67 is 9667).                                                *)
(***************************************************************************)
EXTENDS Integers, Sequences, FiniteSets, TLC

VARIABLES
    pc,          \* position of the operation being run
    pattern,     \* kmp_search: argument pattern
    text,        \* kmp_search: argument text
    lps,         \* kmp_search: local lps
    i,           \* kmp_search: local i, index into text
    j,           \* kmp_search: local j, index into pattern
    matches,     \* kmp_search: local matches, the list returned
    raised,      \* kmp_search: TRUE once an IndexError has been raised
    text1,       \* plagiarism_score: argument text1
    text2,       \* plagiarism_score: argument text2
    method,      \* plagiarism_score: argument method
    score,       \* plagiarism_score: the dictionary returned
    decrypted,   \* the *.txt files of the decrypted directory: name -> file
    results,     \* run_plagiarism_check: what the call returned
    encrypted_files, \* generate_report: the number of *.encrypted files found
    response,    \* generate_report: the status code and the report returned
    similarity,  \* a result's similarity, in hundredths of a percent
    api_status,  \* backend/app.py: the status get_status_from_similarity gave
    cli_status   \* checker.py: the status display_results printed

kmpVars == <<pattern, text, lps, i, j, matches, raised>>
scoreVars == <<text1, text2, method, score>>
checkVars == <<decrypted, results, encrypted_files, response>>
statusVars == <<similarity, api_status, cli_status>>

vars == <<pc, kmpVars, scoreVars, checkVars, statusVars>>

(***************************************************************************)
(* Bounds of the model.                                                    *)
(***************************************************************************)
MaxPatternLen == 5
MaxTextLen == 7
MaxScoreLen == 2
MaxLines == 2
MaxCharLen == 7
MaxSelfWords == 9
MaxFiles == 4
MaxWords == 3
MaxGramWords == 5

KmpAlphabet == {"a", "b"}

\* All sequences over S of length at most n.
SeqsUpTo(S, n) == UNION {[1..k -> S] : k \in 0..n}

Max(a, b) == IF a >= b THEN a ELSE b
Min(a, b) == IF a <= b THEN a ELSE b

\* s[a:b] of Python for 0 <= a <= b <= len(s).
Slice(s, a, b) == SubSeq(s, a + 1, b)

(***************************************************************************)
(* kmp.py: compute_lps_array.  LpsLoop is the while loop, one iteration    *)
(* per unfolding; its arguments are the locals of the function.            *)
(***************************************************************************)
\* A faulty variant of LpsLoop: on a match it stores length before
\* incrementing it.
RECURSIVE LpsLoopRecordFirst(_, _, _, _)
LpsLoopRecordFirst(pat, length, arr, k) ==
    IF k >= Len(pat) THEN arr
    ELSE IF pat[k + 1] = pat[length + 1]
         THEN LpsLoopRecordFirst(pat, length + 1, [arr EXCEPT ![k + 1] = length], k + 1)
         ELSE IF length # 0
              THEN LpsLoopRecordFirst(pat, arr[length], arr, k)
              ELSE LpsLoopRecordFirst(pat, length, [arr EXCEPT ![k + 1] = 0], k + 1)

RECURSIVE LpsLoop(_, _, _, _)
LpsLoop(pat, length, arr, k) ==
    IF k >= Len(pat) THEN arr
    ELSE IF pat[k + 1] = pat[length + 1]
         THEN LpsLoop(pat, length + 1, [arr EXCEPT ![k + 1] = length + 1], k + 1)
         ELSE IF length # 0
              THEN LpsLoop(pat, arr[length], arr, k)
              ELSE LpsLoop(pat, length, [arr EXCEPT ![k + 1] = 0], k + 1)

compute_lps_array(pat) == LpsLoop(pat, 0, [k \in 1..Len(pat) |-> 0], 1)

(***************************************************************************)
(* kmp.py: kmp_search.  A search state is the record of the locals         *)
(* [i, j, matches, raised]; SearchBody is one iteration of the while loop. *)
(* Reading pattern[j] with j outside 0..len(pattern)-1 raises IndexError   *)
(* in Python: the state is then marked raised and the loop is left.        *)
(***************************************************************************)
\* A faulty variant of KmpGuard: only the empty text returns early.
KmpGuardTextOnly(pat, txt) == txt = <<>>

\* line 45: "if not pattern or not text"
KmpGuard(pat, txt) == pat = <<>> \/ txt = <<>>

SearchInit == [i |-> 0, j |-> 0, matches |-> <<>>, raised |-> FALSE]

\* A faulty variant of SearchBody: after a match the pattern index restarts
\* at 0 instead of lps[j - 1].
SearchBodyRestart(pat, txt, f, s) ==
    IF s.j >= Len(pat) THEN [s EXCEPT !.raised = TRUE]
    ELSE
    LET hit == pat[s.j + 1] = txt[s.i + 1]
        i1 == IF hit THEN s.i + 1 ELSE s.i
        j1 == IF hit THEN s.j + 1 ELSE s.j
    IN  IF j1 = Len(pat)
        THEN [s EXCEPT !.i = i1, !.j = 0, !.matches = Append(s.matches, i1 - j1)]
        ELSE IF i1 < Len(txt) /\ pat[j1 + 1] # txt[i1 + 1]
             THEN IF j1 # 0
                  THEN [s EXCEPT !.i = i1, !.j = f[j1]]
                  ELSE [s EXCEPT !.i = i1 + 1, !.j = j1]
             ELSE [s EXCEPT !.i = i1, !.j = j1]

\* A faulty variant of SearchBody: on a mismatch after j matched characters
\* the search restarts in the text one character after the start of the
\* attempt, as a naive search does.
SearchBodyBacktrack(pat, txt, f, s) ==
    IF s.j >= Len(pat) THEN [s EXCEPT !.raised = TRUE]
    ELSE
    LET hit == pat[s.j + 1] = txt[s.i + 1]
        i1 == IF hit THEN s.i + 1 ELSE s.i
        j1 == IF hit THEN s.j + 1 ELSE s.j
    IN  IF j1 = Len(pat)
        THEN [s EXCEPT !.i = i1, !.j = f[j1], !.matches = Append(s.matches, i1 - j1)]
        ELSE IF i1 < Len(txt) /\ pat[j1 + 1] # txt[i1 + 1]
             THEN IF j1 # 0
                  THEN [s EXCEPT !.i = i1 - j1 + 1, !.j = 0]
                  ELSE [s EXCEPT !.i = i1 + 1, !.j = j1]
             ELSE [s EXCEPT !.i = i1, !.j = j1]

\* A faulty variant of SearchBody: after a match the pattern index is left
\* at len(pattern) instead of going back to lps[j - 1].
SearchBodyNoReset(pat, txt, f, s) ==
    IF s.j >= Len(pat) THEN [s EXCEPT !.raised = TRUE]
    ELSE
    LET hit == pat[s.j + 1] = txt[s.i + 1]
        i1 == IF hit THEN s.i + 1 ELSE s.i
        j1 == IF hit THEN s.j + 1 ELSE s.j
    IN  IF j1 = Len(pat)
        THEN [s EXCEPT !.i = i1, !.j = j1, !.matches = Append(s.matches, i1 - j1)]
        ELSE IF i1 < Len(txt) /\ pat[j1 + 1] # txt[i1 + 1]
             THEN IF j1 # 0
                  THEN [s EXCEPT !.i = i1, !.j = f[j1]]
                  ELSE [s EXCEPT !.i = i1 + 1, !.j = j1]
             ELSE [s EXCEPT !.i = i1, !.j = j1]

SearchBody(pat, txt, f, s) ==
    IF s.j >= Len(pat) THEN [s EXCEPT !.raised = TRUE]
    ELSE
    LET hit == pat[s.j + 1] = txt[s.i + 1]
        i1 == IF hit THEN s.i + 1 ELSE s.i
        j1 == IF hit THEN s.j + 1 ELSE s.j
    IN  IF j1 = Len(pat)
        THEN [s EXCEPT !.i = i1, !.j = f[j1], !.matches = Append(s.matches, i1 - j1)]
        ELSE IF i1 < Len(txt) /\ pat[j1 + 1] # txt[i1 + 1]
             THEN IF j1 # 0
                  THEN [s EXCEPT !.i = i1, !.j = f[j1]]
                  ELSE [s EXCEPT !.i = i1 + 1, !.j = j1]
             ELSE [s EXCEPT !.i = i1, !.j = j1]

\* line 55: the loop runs while i < len(text) (and no exception has left it).
SearchRunning(txt, s) == ~s.raised /\ s.i < Len(txt)

RECURSIVE SearchLoop(_, _, _, _)
SearchLoop(pat, txt, f, s) ==
    IF SearchRunning(txt, s) THEN SearchLoop(pat, txt, f, SearchBody(pat, txt, f, s))
    ELSE s

\* The whole call: the final locals.
kmp_run(pat, txt) ==
    IF KmpGuard(pat, txt) THEN SearchInit
    ELSE SearchLoop(pat, txt, compute_lps_array(pat), SearchInit)

\* The list kmp_search returns.
kmp_search(pat, txt) == kmp_run(pat, txt).matches

(***************************************************************************)
(* The str and list methods of Python that the scoring functions use.      *)
(***************************************************************************)
Space == " "
Newline == "\n"

\* The characters str.split() and str.strip() treat as whitespace.
Whitespace == {Space, Newline}

\* str.lower() on one character.
LowerChar(c) ==
    CASE c = "A" -> "a"
      [] c = "B" -> "b"
      [] c = "F" -> "f"
      [] c = "H" -> "h"
      [] OTHER -> c

\* s.lower()
Lower(s) == [k \in 1..Len(s) |-> LowerChar(s[k])]

\* s.strip(): without its leading and trailing whitespace.
Strip(s) ==
    LET keep == {k \in 1..Len(s) : s[k] \notin Whitespace}
    IN  IF keep = {} THEN <<>>
        ELSE SubSeq(s, CHOOSE k \in keep : \A m \in keep : k <= m,
                       CHOOSE k \in keep : \A m \in keep : k >= m)

\* s.split(sep) for a one-character sep: the pieces between the separators,
\* empty pieces included (the empty string gives one empty piece).
RECURSIVE SplitOn(_, _, _, _)
SplitOn(s, sep, k, cur) ==
    IF k > Len(s) THEN <<cur>>
    ELSE IF s[k] = sep THEN <<cur>> \o SplitOn(s, sep, k + 1, <<>>)
         ELSE SplitOn(s, sep, k + 1, Append(cur, s[k]))

SplitLines(s) == SplitOn(s, Newline, 1, <<>>)

\* s.split(): the maximal runs of non-whitespace characters.
RECURSIVE SplitWords(_, _, _)
SplitWords(s, k, cur) ==
    IF k > Len(s) THEN (IF cur = <<>> THEN <<>> ELSE <<cur>>)
    ELSE IF s[k] \in Whitespace
         THEN (IF cur = <<>> THEN <<>> ELSE <<cur>>) \o SplitWords(s, k + 1, <<>>)
         ELSE SplitWords(s, k + 1, Append(cur, s[k]))

Split(s) == SplitWords(s, 1, <<>>)

\* sep.join(parts)
RECURSIVE Join(_, _)
Join(parts, sep) ==
    IF parts = <<>> THEN <<>>
    ELSE IF Len(parts) = 1 THEN parts[1]
         ELSE parts[1] \o sep \o Join(Tail(parts), sep)

\* "sub in s" on two str.
Contains(sub, s) ==
    \E o \in 0..(Len(s) - Len(sub)) : Slice(s, o, o + Len(sub)) = sub

\* "x in xs" on a list.
InList(x, xs) == \E k \in 1..Len(xs) : xs[k] = x

\* [f(x) for x in xs if p(x)] for the line lists of the scoring functions:
\* the stripped, lower-cased lines of xs that are not blank.
RECURSIVE CleanLines(_)
CleanLines(xs) ==
    IF xs = <<>> THEN <<>>
    ELSE (IF Strip(xs[1]) # <<>> THEN <<Lower(Strip(xs[1]))>> ELSE <<>>)
         \o CleanLines(Tail(xs))

\* round(num / den, 2) for a percentage num / den >= 0, as hundredths.  The
\* tie (exactly half a hundredth) goes to the even neighbour, as round() does
\* on a value that is exact in binary; no score of the inputs explored here
\* falls on a tie.
Round2(num, den) ==
    LET q == (num * 100) \div den
        r == (num * 100) % den
    IN  IF 2 * r > den \/ (2 * r = den /\ q % 2 = 1) THEN q + 1 ELSE q

\* The record returned on degenerate input.
ZeroScore(m) == [similarity_percentage |-> 0, common_segments |-> 0, method |-> m]

(***************************************************************************)
(* kmp.py: _line_based_similarity                                          *)
(***************************************************************************)
\* lines 262-267: the lines of lines1 found by kmp_search in the joined lines2.
\* A faulty variant of CommonLines: the lines of lines2 found in lines1.
CommonLinesOfSecond(lines1, lines2) ==
    Cardinality({k \in 1..Len(lines2) :
                    kmp_search(lines2[k], Join(lines1, <<Newline>>)) # <<>>})

CommonLines(lines1, lines2) ==
    Cardinality({k \in 1..Len(lines1) :
                    kmp_search(lines1[k], Join(lines2, <<Newline>>)) # <<>>})

\* A faulty variant of _line_based_similarity: it divides by the smaller of
\* the two line counts.
_line_based_similarityMinLines(t1, t2) ==
    LET lines1 == CleanLines(SplitLines(t1))
        lines2 == CleanLines(SplitLines(t2))
        common_lines == CommonLines(lines1, lines2)
        min_lines == Min(Len(lines1), Len(lines2))
    IN  IF lines1 = <<>> \/ lines2 = <<>> THEN ZeroScore("line_based")
        ELSE [similarity_percentage |-> Round2(common_lines * 100, min_lines),
              common_segments |-> common_lines,
              method |-> "line_based"]

_line_based_similarity(t1, t2) ==
    LET lines1 == CleanLines(SplitLines(t1))
        lines2 == CleanLines(SplitLines(t2))
        common_lines == CommonLines(lines1, lines2)
        max_lines == Max(Len(lines1), Len(lines2))
    IN  IF lines1 = <<>> \/ lines2 = <<>> THEN ZeroScore("line_based")
        ELSE [similarity_percentage |-> Round2(common_lines * 100, max_lines),
              common_segments |-> common_lines,
              method |-> "line_based"]

(***************************************************************************)
(* kmp.py: _word_based_similarity                                          *)
(***************************************************************************)
min_seq_length == 3
max_seq_length == 8

\* A faulty variant of SequenceLoop: a candidate covered by an accepted
\* sequence is searched like any other.
RECURSIVE SequenceLoopNoSkip(_, _, _, _, _)
SequenceLoopNoSkip(words1, joined2, seq_length, k, common) ==
    IF seq_length < min_seq_length THEN common
    ELSE IF k >= Len(words1) - seq_length + 1
         THEN SequenceLoopNoSkip(words1, joined2, seq_length - 1, 0, common)
         ELSE LET sequence == Join(Slice(words1, k, k + seq_length), <<Space>>)
              IN  IF kmp_search(sequence, joined2) # <<>>
                  THEN SequenceLoopNoSkip(words1, joined2, seq_length, k + 1,
                                          Append(common, sequence))
                  ELSE SequenceLoopNoSkip(words1, joined2, seq_length, k + 1, common)

\* lines 167-180: the loops over seq_length (descending) and i; common is
\* common_sequences, which holds the same strings as found_sequences.
RECURSIVE SequenceLoop(_, _, _, _, _)
SequenceLoop(words1, joined2, seq_length, k, common) ==
    IF seq_length < min_seq_length THEN common
    ELSE IF k >= Len(words1) - seq_length + 1
         THEN SequenceLoop(words1, joined2, seq_length - 1, 0, common)
         ELSE LET sequence == Join(Slice(words1, k, k + seq_length), <<Space>>)
              IN  IF \E n \in 1..Len(common) : Contains(sequence, common[n])
                  THEN SequenceLoop(words1, joined2, seq_length, k + 1, common)
                  ELSE IF kmp_search(sequence, joined2) # <<>>
                       THEN SequenceLoop(words1, joined2, seq_length, k + 1,
                                         Append(common, sequence))
                       ELSE SequenceLoop(words1, joined2, seq_length, k + 1, common)

common_sequences(words1, words2) ==
    SequenceLoop(words1, Join(words2, <<Space>>), max_seq_length, 0, <<>>)

RECURSIVE SumWords(_)
SumWords(seqs) ==
    IF seqs = <<>> THEN 0 ELSE Len(Split(seqs[1])) + SumWords(Tail(seqs))

\* A faulty variant of exact_line_matches: a line counts when kmp_search
\* finds it in the joined lines2, as in _line_based_similarity.
exact_line_matchesBySearch(lines1, lines2) ==
    Cardinality({k \in 1..Len(lines1) :
                    kmp_search(lines1[k], Join(lines2, <<Newline>>)) # <<>>})

\* lines 146-151: the lines of lines1 that are elements of lines2.
exact_line_matches(lines1, lines2) ==
    Cardinality({k \in 1..Len(lines1) : InList(lines1[k], lines2)})

\* lines 183-189: sequence_similarity as the fraction <<num, den>>:
\* min(100, total_common_words / avg_length * 100) with
\* avg_length = 2 * n1 * n2 / (n1 + n2).
sequence_similarity(common, n1, n2) ==
    LET total_common_words == SumWords(common)
        num == total_common_words * (n1 + n2) * 100
        den == 2 * n1 * n2
    IN  IF common = <<>> THEN <<0, 1>>
        ELSE IF num > 100 * den THEN <<100, 1>> ELSE <<num, den>>

\* lines 192-194: word_similarity as the fraction <<num, den>>.
word_similarity(words1, words2) ==
    LET set1 == {words1[k] : k \in 1..Len(words1)}
        set2 == {words2[k] : k \in 1..Len(words2)}
    IN  <<Cardinality(set1 \cap set2) * 100, Cardinality(set1 \cup set2)>>

\* A faulty variant of final_similarity: the weights of the line score and
\* of the sequence score are exchanged.
final_similaritySwappedWeights(line_matches, total_lines, seq_sim, word_sim) ==
    IF line_matches > 0
    THEN <<3 * 100 * line_matches * seq_sim[2] + 7 * seq_sim[1] * total_lines,
           10 * total_lines * seq_sim[2]>>
    ELSE IF seq_sim[1] * word_sim[2] >= word_sim[1] * seq_sim[2]
         THEN seq_sim ELSE word_sim

\* lines 198-201: final_similarity as the fraction <<num, den>>.
final_similarity(line_matches, total_lines, seq_sim, word_sim) ==
    IF line_matches > 0
    THEN <<7 * 100 * line_matches * seq_sim[2] + 3 * seq_sim[1] * total_lines,
           10 * total_lines * seq_sim[2]>>
    ELSE IF seq_sim[1] * word_sim[2] >= word_sim[1] * seq_sim[2]
         THEN seq_sim ELSE word_sim

_word_based_similarity(t1, t2) ==
    LET words1 == Split(Lower(t1))
        words2 == Split(Lower(t2))
        lines1 == CleanLines(SplitLines(Strip(t1)))
        lines2 == CleanLines(SplitLines(Strip(t2)))
        line_matches == exact_line_matches(lines1, lines2)
        total_lines == Max(Len(lines1), Len(lines2))
        common == common_sequences(words1, words2)
        final == final_similarity(line_matches, total_lines,
                                  sequence_similarity(common, Len(words1), Len(words2)),
                                  word_similarity(words1, words2))
    IN  IF words1 = <<>> \/ words2 = <<>> THEN ZeroScore("word_based")
        ELSE [similarity_percentage |->
                  IF final[1] > 100 * final[2] THEN 10000
                  ELSE Round2(final[1], final[2]),
              common_segments |-> Len(common),
              method |-> "word_based"]

(***************************************************************************)
(* kmp.py: _char_based_similarity                                          *)
(***************************************************************************)
min_length == 5
max_window == 50

\* line 212: ''.join(text.lower().split())
CleanText(t) == Join(Split(Lower(t)), <<>>)

\* lines 230-231: the pairs (i, j) the two loops visit on s1.
WindowPairs(s1) ==
    LET max_check_length == Min(max_window, Len(s1))
    IN  {p \in (0..(Len(s1) - min_length)) \X (0..Len(s1)) :
            /\ p[2] >= p[1] + min_length
            /\ p[2] < Min(p[1] + max_check_length, Len(s1) + 1)}

\* lines 219-238: <<max_length, len(set(common_substrings))>>.
LcsOfOrdered(s1, s2) ==
    LET common == {Slice(s1, p[1], p[2]) :
                      p \in {q \in WindowPairs(s1) : Contains(Slice(s1, q[1], q[2]), s2)}}
        lengths == {Len(c) : c \in common}
    IN  <<IF lengths = {} THEN 0 ELSE CHOOSE n \in lengths : \A m \in lengths : m <= n,
          Cardinality(common)>>

\* A faulty variant of longest_common_substring_length: no swap, the windows
\* are taken on the first text whatever its length.
longest_common_substring_lengthNoSwap(s1, s2) == LcsOfOrdered(s1, s2)

\* lines 221-222: s1 is the shorter of the two.
longest_common_substring_length(s1, s2) ==
    IF Len(s1) > Len(s2) THEN LcsOfOrdered(s2, s1) ELSE LcsOfOrdered(s1, s2)

_char_based_similarity(t1, t2) ==
    LET clean_text1 == CleanText(t1)
        clean_text2 == CleanText(t2)
        lcs == longest_common_substring_length(clean_text1, clean_text2)
    IN  IF clean_text1 = <<>> \/ clean_text2 = <<>> THEN ZeroScore("char_based")
        ELSE [similarity_percentage |->
                  IF lcs[1] > 0
                  THEN Round2(lcs[1] * 100, Max(Len(clean_text1), Len(clean_text2)))
                  ELSE 0,
              common_segments |-> lcs[2],
              method |-> "char_based"]

(***************************************************************************)
(* kmp.py: plagiarism_score                                                *)
(***************************************************************************)
plagiarism_score(t1, t2, m) ==
    IF t1 = <<>> \/ t2 = <<>> THEN ZeroScore(m)
    ELSE CASE m = "word_based" -> _word_based_similarity(t1, t2)
           [] m = "char_based" -> _char_based_similarity(t1, t2)
           [] m = "line_based" -> _line_based_similarity(t1, t2)
           [] OTHER -> _word_based_similarity(t1, t2)

(***************************************************************************)
(* The exceptions of a call of plagiarism_score: ZeroDivisionError at a    *)
(* division whose divisor is 0, IndexError in a kmp_search it makes.       *)
(***************************************************************************)
\* kmp_search(pat, txt) leaves by an exception.
kmp_raises(pat, txt) == kmp_run(pat, txt).raised

\* lines 167-180: one of the searches the loops make raises.
RECURSIVE SequenceLoopRaises(_, _, _, _, _)
SequenceLoopRaises(words1, joined2, seq_length, k, common) ==
    IF seq_length < min_seq_length THEN FALSE
    ELSE IF k >= Len(words1) - seq_length + 1
         THEN SequenceLoopRaises(words1, joined2, seq_length - 1, 0, common)
         ELSE LET sequence == Join(Slice(words1, k, k + seq_length), <<Space>>)
                  run == kmp_run(sequence, joined2)
              IN  IF \E n \in 1..Len(common) : Contains(sequence, common[n])
                  THEN SequenceLoopRaises(words1, joined2, seq_length, k + 1, common)
                  ELSE IF run.raised THEN TRUE
                       ELSE IF run.matches # <<>>
                            THEN SequenceLoopRaises(words1, joined2, seq_length, k + 1,
                                                    Append(common, sequence))
                            ELSE SequenceLoopRaises(words1, joined2, seq_length, k + 1, common)

\* lines 133-207: the divisions of line 155 (by total_lines, made when a line
\* matched), of line 186 (by len(words1) + len(words2)) and of line 187 (by
\* avg_length), both made when a sequence is common; line 194 is guarded.
_word_based_raises(t1, t2) ==
    LET words1 == Split(Lower(t1))
        words2 == Split(Lower(t2))
        lines1 == CleanLines(SplitLines(Strip(t1)))
        lines2 == CleanLines(SplitLines(Strip(t2)))
        total_lines == Max(Len(lines1), Len(lines2))
    IN  /\ words1 # <<>>
        /\ words2 # <<>>
        /\ \/ total_lines = 0 /\ exact_line_matches(lines1, lines2) > 0
           \/ SequenceLoopRaises(words1, Join(words2, <<Space>>), max_seq_length, 0, <<>>)
           \/ /\ Len(words1) + Len(words2) = 0 \/ 2 * Len(words1) * Len(words2) = 0
              /\ common_sequences(words1, words2) # <<>>

\* lines 209-252: the division of line 244 (by max_length), made when a
\* common substring was found.
_char_based_raises(t1, t2) ==
    LET clean_text1 == CleanText(t1)
        clean_text2 == CleanText(t2)
    IN  /\ clean_text1 # <<>>
        /\ clean_text2 # <<>>
        /\ Max(Len(clean_text1), Len(clean_text2)) = 0
        /\ longest_common_substring_length(clean_text1, clean_text2)[1] > 0

\* lines 254-276: the searches of line 266; the division of line 270 is
\* guarded by max_lines > 0.
_line_based_raises(t1, t2) ==
    LET lines1 == CleanLines(SplitLines(t1))
        lines2 == CleanLines(SplitLines(t2))
    IN  /\ lines1 # <<>>
        /\ lines2 # <<>>
        /\ \E k \in 1..Len(lines1) : kmp_raises(lines1[k], Join(lines2, <<Newline>>))

\* lines 109-131: the call leaves by an exception.
plagiarism_score_raises(t1, t2, m) ==
    IF t1 = <<>> \/ t2 = <<>> THEN FALSE
    ELSE CASE m = "word_based" -> _word_based_raises(t1, t2)
           [] m = "char_based" -> _char_based_raises(t1, t2)
           [] m = "line_based" -> _line_based_raises(t1, t2)
           [] OTHER -> _word_based_raises(t1, t2)

\* The method tags given to plagiarism_score: the three it knows and one it
\* does not.
Methods == {"word_based", "char_based", "line_based", "unknown"}

NoScore == [similarity_percentage |-> 0, common_segments |-> 0, method |-> "none"]

\* The scoring variables of a run that scores nothing.
ScoreIdle ==
    /\ text1 = <<>>
    /\ text2 = <<>>
    /\ method = "none"
    /\ score = NoScore

(***************************************************************************)
(* checker.py: PlagiarismChecker.run_plagiarism_check and display_results. *)
(* A file of the decrypted directory is [readable, data]; what the call    *)
(* returns is [returned, rows]: returned is "list" with the rows, or       *)
(* "None" after one of the early returns.                                  *)
(***************************************************************************)
\* lines 113-120: load_file_content, the stripped text or None.
load_file_content(file) ==
    IF file.readable THEN [ok |-> TRUE, content |-> Strip(file.data)]
    ELSE [ok |-> FALSE, content |-> <<>>]

\* A faulty variant of Usable: a file counts whether or not it was loaded.
UsableAny(file) == TRUE

\* line 138: "if content", true of a loaded text that is not empty.
Usable(file) ==
    load_file_content(file).ok /\ load_file_content(file).content # <<>>

\* lines 134-139 and 149: the names of file_contents, in the order the
\* files were listed.
RECURSIVE file_names(_, _)
file_names(dir, listing) ==
    IF listing = <<>> THEN <<>>
    ELSE (IF Usable(dir[listing[1]]) THEN <<listing[1]>> ELSE <<>>)
         \o file_names(dir, Tail(listing))

\* A faulty variant of combinations2: every name paired with every name.
OrderedPairs(names) ==
    LET n == Len(names)
        m == n * n
    IN  [k \in 1..m |-> <<names[((k - 1) \div n) + 1], names[((k - 1) % n) + 1]>>]

\* itertools.combinations(names, 2): the pairs of positions a < b, in
\* lexicographic order.
RECURSIVE combinations2(_)
combinations2(names) ==
    IF Len(names) < 2 THEN <<>>
    ELSE [k \in 1..(Len(names) - 1) |-> <<names[1], names[k + 1]>>]
         \o combinations2(Tail(names))

\* lines 151-164: one row per pair.
RECURSIVE ResultRows(_, _, _)
ResultRows(dir, pairs, m) ==
    IF pairs = <<>> THEN <<>>
    ELSE LET similarity_data ==
                 plagiarism_score(load_file_content(dir[pairs[1][1]]).content,
                                  load_file_content(dir[pairs[1][2]]).content, m)
         IN  <<[file1 |-> pairs[1][1],
                file2 |-> pairs[1][2],
                similarity |-> similarity_data.similarity_percentage,
                common_segments |-> similarity_data.common_segments,
                method |-> similarity_data.method]>>
             \o ResultRows(dir, Tail(pairs), m)

\* rows with row inserted after the last row whose similarity is >= its own.
RECURSIVE InsertDescending(_, _)
InsertDescending(rows, row) ==
    IF rows = <<>> THEN <<row>>
    ELSE IF rows[1].similarity >= row.similarity
         THEN <<rows[1]>> \o InsertDescending(Tail(rows), row)
         ELSE <<row>> \o rows

\* A faulty variant of SortDescending: the rows are left as computed.
SortNone(rows) == rows

\* line 178: results.sort(key=similarity, reverse=True), a stable sort.
RECURSIVE SortDescending(_)
SortDescending(rows) ==
    IF rows = <<>> THEN <<>>
    ELSE InsertDescending(SortDescending(SubSeq(rows, 1, Len(rows) - 1)),
                          rows[Len(rows)])

\* A faulty variant of run_plagiarism_check: the number of loaded texts is
\* not checked before the pairs are formed.
run_plagiarism_checkNoRecheck(dir, listing, m) ==
    IF Len(listing) < 2 THEN [returned |-> "None", rows |-> <<>>]
    ELSE [returned |-> "list",
          rows |-> SortDescending(
              ResultRows(dir, combinations2(file_names(dir, listing)), m))]

\* lines 122-169, with the in-place sort of display_results (line 178).
run_plagiarism_check(dir, listing, m) ==
    IF Len(listing) < 2 THEN [returned |-> "None", rows |-> <<>>]
    ELSE IF Len(file_names(dir, listing)) < 2 THEN [returned |-> "None", rows |-> <<>>]
         ELSE [returned |-> "list",
               rows |-> SortDescending(
                   ResultRows(dir, combinations2(file_names(dir, listing)), m))]

(***************************************************************************)
(* The status labels.  A similarity is in hundredths of a percent, so the  *)
(* threshold 80 of the code is Percent(80).                                *)
(***************************************************************************)
Percent(n) == n * 100

\* A faulty variant of get_status_from_similarity: strict comparisons.
get_status_from_similarityStrict(sim) ==
    IF sim > Percent(80) THEN "HIGH"
    ELSE IF sim > Percent(50) THEN "MEDIUM"
         ELSE IF sim > Percent(20) THEN "LOW"
              ELSE "MINIMAL"

\* backend/app.py lines 32-41.
get_status_from_similarity(sim) ==
    IF sim >= Percent(80) THEN "HIGH"
    ELSE IF sim >= Percent(50) THEN "MEDIUM"
         ELSE IF sim >= Percent(20) THEN "LOW"
              ELSE "MINIMAL"

\* checker.py lines 189-197: the status display_results prints is a sign
\* followed by the label.
display_status(sim) ==
    IF sim >= Percent(80) THEN [sign |-> "siren", label |-> "HIGH"]
    ELSE IF sim >= Percent(50) THEN [sign |-> "warning", label |-> "MEDIUM"]
         ELSE IF sim >= Percent(20) THEN [sign |-> "information", label |-> "LOW"]
              ELSE [sign |-> "check mark", label |-> "MINIMAL"]

(***************************************************************************)
(* backend/app.py: generate_report.  The response is [code, comparisons,   *)
(* summary]; an error response carries no comparisons.                     *)
(***************************************************************************)
NoSummary ==
    [total_files |-> 0, total_comparisons |-> 0, average_similarity |-> 0,
     highest_similarity |-> 0, suspicious_pairs |-> 0, high_risk_pairs |-> 0]

NoResponse == [code |-> 0, comparisons |-> <<>>, summary |-> NoSummary]

ErrorResponse(code) == [code |-> code, comparisons |-> <<>>, summary |-> NoSummary]

RECURSIVE SumSimilarity(_)
SumSimilarity(rows) ==
    IF rows = <<>> THEN 0 ELSE rows[1].similarity + SumSimilarity(Tail(rows))

\* lines 297-298: every result gets its status.
WithStatus(rows) ==
    [k \in 1..Len(rows) |->
        [file1 |-> rows[k].file1,
         file2 |-> rows[k].file2,
         similarity |-> rows[k].similarity,
         common_segments |-> rows[k].common_segments,
         method |-> rows[k].method,
         status |-> get_status_from_similarity(rows[k].similarity)]]

\* lines 301-319: the summary of a list of results that is not empty.
Summary(files_found, rows) ==
    [total_files |-> files_found,
     total_comparisons |-> Len(rows),
     average_similarity |-> Round2(SumSimilarity(rows), 100 * Len(rows)),
     highest_similarity |->
         CHOOSE s \in {rows[k].similarity : k \in 1..Len(rows)} :
             \A k \in 1..Len(rows) : rows[k].similarity <= s,
     suspicious_pairs |-> Cardinality({k \in 1..Len(rows) : rows[k].similarity >= Percent(50)}),
     high_risk_pairs |-> Cardinality({k \in 1..Len(rows) : rows[k].similarity >= Percent(80)})]

\* lines 243-335: the response for files_found *.encrypted files, where
\* checked is what plagiarism.run_plagiarism_check returned (line 288); the
\* call is only made when at least 2 files were found.
generate_report(files_found, checked) ==
    IF files_found < 2 THEN ErrorResponse(400)
    ELSE IF checked.returned = "None" \/ checked.rows = <<>> THEN ErrorResponse(500)
         ELSE [code |-> 200,
               comparisons |-> WithStatus(checked.rows),
               summary |-> Summary(files_found, checked.rows)]

\* The variables of a run that compares no directory and labels nothing.
CheckIdle ==
    /\ decrypted = <<>>
    /\ results = [returned |-> "None", rows |-> <<>>]
    /\ encrypted_files = 0
    /\ response = NoResponse

StatusIdle ==
    /\ similarity = 0
    /\ api_status = "none"
    /\ cli_status = [sign |-> "none", label |-> "none"]

(***************************************************************************)
(* kmp_search as a process: one action per step of the function.           *)
(***************************************************************************)
KmpInit ==
    /\ pc = "kmp_call"
    /\ pattern \in SeqsUpTo(KmpAlphabet, MaxPatternLen)
    /\ text \in SeqsUpTo(KmpAlphabet, MaxTextLen)
    /\ lps = <<>>
    /\ i = 0
    /\ j = 0
    /\ matches = <<>>
    /\ raised = FALSE
    /\ ScoreIdle
    /\ CheckIdle
    /\ StatusIdle

\* lines 45-46: the early return.
KmpEmpty ==
    /\ pc = "kmp_call"
    /\ KmpGuard(pattern, text)
    /\ pc' = "kmp_done"
    /\ matches' = <<>>
    /\ UNCHANGED <<pattern, text, lps, i, j, raised, scoreVars, checkVars, statusVars>>

\* lines 48-53: the failure table and the locals.
KmpBegin ==
    /\ pc = "kmp_call"
    /\ ~KmpGuard(pattern, text)
    /\ lps' = compute_lps_array(pattern)
    /\ i' = SearchInit.i
    /\ j' = SearchInit.j
    /\ matches' = SearchInit.matches
    /\ pc' = "kmp_loop"
    /\ UNCHANGED <<pattern, text, raised, scoreVars, checkVars, statusVars>>

\* lines 55-67: one iteration of the while loop.
KmpStep ==
    /\ pc = "kmp_loop"
    /\ SearchRunning(text, [i |-> i, j |-> j, matches |-> matches, raised |-> raised])
    /\ LET s == SearchBody(pattern, text, lps,
                           [i |-> i, j |-> j, matches |-> matches, raised |-> raised])
       IN  /\ i' = s.i
           /\ j' = s.j
           /\ matches' = s.matches
           /\ raised' = s.raised
    /\ UNCHANGED <<pc, pattern, text, lps, scoreVars, checkVars, statusVars>>

\* line 69 (or the exception leaving the function).
KmpReturn ==
    /\ pc = "kmp_loop"
    /\ ~SearchRunning(text, [i |-> i, j |-> j, matches |-> matches, raised |-> raised])
    /\ pc' = "kmp_done"
    /\ UNCHANGED <<kmpVars, scoreVars, checkVars, statusVars>>

KmpNext == KmpEmpty \/ KmpBegin \/ KmpStep \/ KmpReturn

SpecKmp == KmpInit /\ [][KmpNext]_vars

\* The interpreter runs the call to its end: a step that can be taken is
\* taken.
SpecKmpFair == SpecKmp /\ WF_vars(KmpNext)

(***************************************************************************)
(* plagiarism_score as a process: the call and its return.                 *)
(***************************************************************************)
\* The matcher's variables of a run that only scores.
KmpIdle ==
    /\ pattern = <<>>
    /\ text = <<>>
    /\ lps = <<>>
    /\ i = 0
    /\ j = 0
    /\ matches = <<>>
    /\ raised = FALSE

\* Short texts over letters of both cases and both kinds of whitespace.
ScoreAlphabet == {"a", "b", "A", Space, Newline}
ScoreTexts == SeqsUpTo(ScoreAlphabet, MaxScoreLen)

\* Documents of whole lines: a line that is a word, a longer word holding
\* it, two words, and a line that differs from another by case and margin.
LineSet == {<<"a">>, <<"b">>, <<"a", "b">>, <<"a", Space, "b">>, <<Space, "A">>}
\* The two documents of the line_based scenario:
\* "Hello world\nFoo bar" and "Hello world\nBaz qux".
HelloFoo ==
    <<"H", "e", "l", "l", "o", Space, "w", "o", "r", "l", "d", Newline,
      "F", "o", "o", Space, "b", "a", "r">>
HelloBaz ==
    <<"H", "e", "l", "l", "o", Space, "w", "o", "r", "l", "d", Newline,
      "B", "a", "z", Space, "q", "u", "x">>

LineTexts ==
    {Join(ls, <<Newline>>) : ls \in SeqsUpTo(LineSet, MaxLines)} \cup {HelloFoo, HelloBaz}

\* Texts long enough for the character windows: plain ones, and the longer
\* of them behind a capital and a space, which cleaning folds and removes.
PlainTexts == SeqsUpTo({"a", "b"}, MaxCharLen)
CharTexts ==
    PlainTexts \cup {<<"A", Space>> \o t : t \in {u \in PlainTexts : Len(u) >= min_length}}

\* Documents of one-letter words separated by single spaces.
SelfTexts ==
    {Join(ws, <<Space>>) :
        ws \in {w \in SeqsUpTo({<<"a">>, <<"b">>}, MaxSelfWords) : Len(w) >= min_seq_length}}

\* Documents of words, one of which holds another, on one line or on two.
Vocabulary == {<<"a">>, <<"b">>, <<"a", "b">>}

RECURSIVE Interleave(_, _)
Interleave(ws, seps) ==
    IF Len(ws) = 1 THEN ws[1]
    ELSE ws[1] \o <<seps[1]>> \o Interleave(Tail(ws), Tail(seps))

WordTexts ==
    UNION {{Interleave(ws, seps) :
                seps \in {s \in [1..(Len(ws) - 1) -> Whitespace] :
                             Cardinality({k \in DOMAIN s : s[k] = Newline}) <= 1}} :
              ws \in SeqsUpTo(Vocabulary, MaxWords) \ {<<>>}}

\* Documents of min_seq_length to MaxGramWords one-letter words on one line,
\* and three documents in which a word holds another word.
GramTexts ==
    {Join(ws, <<Space>>) :
        ws \in {w \in SeqsUpTo({<<"a">>, <<"b">>}, MaxGramWords) : Len(w) >= min_seq_length}}
    \cup {Join(<<<<"a">>, <<"a">>, <<"a">>, <<"a", "a">>, <<"a">>, <<"a">>>>, <<Space>>),
          Join(<<<<"a", "a">>, <<"a">>, <<"a">>, <<"a">>>>, <<Space>>),
          Join(<<<<"a">>, <<"b">>, <<"a", "b">>>>, <<Space>>)}

ScoreInitOn(texts1, texts2, methods) ==
    /\ pc = "score_call"
    /\ text1 \in texts1
    /\ text2 \in texts2
    /\ method \in methods
    /\ score = NoScore
    /\ KmpIdle
    /\ CheckIdle
    /\ StatusIdle

ScoreInit == ScoreInitOn(ScoreTexts, ScoreTexts, Methods)
LinesInit == ScoreInitOn(LineTexts, LineTexts, Methods)
CharInit == ScoreInitOn(CharTexts, CharTexts, {"char_based"})
SelfInit == ScoreInitOn(SelfTexts, SelfTexts, {"word_based"}) /\ text1 = text2
WordsInit == ScoreInitOn(WordTexts, WordTexts, {"word_based"})
GramsInit == ScoreInitOn(GramTexts, GramTexts, {"word_based"})

\* kmp.py lines 109-131: the call of plagiarism_score and its return, or
\* the exception that ends it.
Score ==
    /\ pc = "score_call"
    /\ IF plagiarism_score_raises(text1, text2, method)
       THEN score' = score /\ pc' = "score_raised"
       ELSE score' = plagiarism_score(text1, text2, method) /\ pc' = "score_done"
    /\ UNCHANGED <<text1, text2, method, kmpVars, checkVars, statusVars>>

ScoreNext == Score

SpecScore == ScoreInit /\ [][ScoreNext]_vars
SpecLines == LinesInit /\ [][ScoreNext]_vars
SpecChar == CharInit /\ [][ScoreNext]_vars
SpecSelf == SelfInit /\ [][ScoreNext]_vars
SpecWords == WordsInit /\ [][ScoreNext]_vars
SpecGrams == GramsInit /\ [][ScoreNext]_vars

(***************************************************************************)
(* run_plagiarism_check as a process.  The decrypted directory holds some  *)
(* of the files 1..MaxFiles; glob lists them in an order of its own.       *)
(***************************************************************************)
FileStates ==
    {[readable |-> FALSE, data |-> <<>>],
     [readable |-> TRUE, data |-> <<Space>>],
     [readable |-> TRUE, data |-> <<"a">>],
     [readable |-> TRUE, data |-> <<"a", Newline, "b", Newline>>]}

Directories == UNION {[D -> FileStates] : D \in SUBSET (1..MaxFiles)}

\* The orders in which glob may list the files of dir.
Listings(dir) ==
    {l \in [1..Cardinality(DOMAIN dir) -> DOMAIN dir] :
        \A a, b \in DOMAIN l : a # b => l[a] # l[b]}

CheckInit ==
    /\ pc = "check_call"
    /\ decrypted \in Directories
    /\ method \in {"word_based", "line_based"}
    /\ results = [returned |-> "None", rows |-> <<>>]
    /\ encrypted_files = 0
    /\ response = NoResponse
    /\ text1 = <<>>
    /\ text2 = <<>>
    /\ score = NoScore
    /\ KmpIdle
    /\ StatusIdle

\* checker.py lines 122-169.
RunPlagiarismCheck ==
    /\ pc = "check_call"
    /\ \E listing \in Listings(decrypted) :
           results' = run_plagiarism_check(decrypted, listing, method)
    /\ pc' = "check_done"
    /\ UNCHANGED <<decrypted, encrypted_files, response, kmpVars, scoreVars, statusVars>>

\* A request for a report: some number of *.encrypted files are in the
\* upload folder.
ReportInit ==
    /\ pc = "report_call"
    /\ encrypted_files \in 0..MaxFiles
    /\ method \in {"word_based", "line_based"}
    /\ decrypted = <<>>
    /\ results = [returned |-> "None", rows |-> <<>>]
    /\ response = NoResponse
    /\ text1 = <<>>
    /\ text2 = <<>>
    /\ score = NoScore
    /\ KmpIdle
    /\ StatusIdle

\* The module plagiarism that generate_report calls (line 288) is not part
\* of the sources: its run_plagiarism_check may return None, an empty list
\* or a list of results.
ModuleSimilarities == {0, Percent(50), Percent(80)}

ModuleRows(m) ==
    [file1 : {1}, file2 : {2}, similarity : ModuleSimilarities,
     common_segments : {0}, method : {m}]

ModuleResults(m) ==
    {[returned |-> "None", rows |-> <<>>]}
        \cup {[returned |-> "list", rows |-> rows] : rows \in SeqsUpTo(ModuleRows(m), 2)}

\* backend/app.py lines 243-335.
GenerateReport ==
    /\ pc = "report_call"
    /\ IF encrypted_files < 2
       THEN /\ results' = results
            /\ response' = generate_report(encrypted_files, results)
       ELSE \E checked \in ModuleResults(method) :
                /\ results' = checked
                /\ response' = generate_report(encrypted_files, checked)
    /\ pc' = "report_done"
    /\ UNCHANGED <<decrypted, encrypted_files, kmpVars, scoreVars, statusVars>>

CheckNext == RunPlagiarismCheck \/ GenerateReport

SpecCheck == (CheckInit \/ ReportInit) /\ [][CheckNext]_vars

(***************************************************************************)
(* The labelling of one similarity by the API and by the CLI.              *)
(***************************************************************************)
StatusInit ==
    /\ pc = "status_call"
    /\ similarity \in 0..Percent(100)
    /\ api_status = "none"
    /\ cli_status = [sign |-> "none", label |-> "none"]
    /\ KmpIdle
    /\ ScoreIdle
    /\ CheckIdle

\* backend/app.py line 298 and checker.py lines 189-197.
LabelStatus ==
    /\ pc = "status_call"
    /\ api_status' = get_status_from_similarity(similarity)
    /\ cli_status' = display_status(similarity)
    /\ pc' = "status_done"
    /\ UNCHANGED <<similarity, kmpVars, scoreVars, checkVars>>

StatusNext == LabelStatus

SpecStatus == StatusInit /\ [][StatusNext]_vars

(***************************************************************************)
(* Claims about the pattern matcher.                                       *)
(***************************************************************************)
\* The true occurrences of pat in txt, as a set of zero-based offsets.
Occurrences(pat, txt) ==
    {o \in 0..(Len(txt) - Len(pat)) : Slice(txt, o, o + Len(pat)) = pat}

\* C1: for non-empty pattern and text, kmp_search returns exactly the
\* offsets of the occurrences of the pattern in the text, each once, in
\* strictly ascending order, overlapping occurrences included.
C1_SearchExact ==
    (pc = "kmp_done" /\ pattern # <<>> /\ text # <<>>) =>
        /\ ~raised
        /\ {matches[k] : k \in 1..Len(matches)} = Occurrences(pattern, text)
        /\ \A k \in 1..(Len(matches) - 1) : matches[k] < matches[k + 1]

\* search("aa", "aaaa") has returned [0, 1, 2].
C1_Witness ==
    /\ pc = "kmp_done"
    /\ pattern = <<"a", "a">>
    /\ text = <<"a", "a", "a", "a">>
    /\ matches = <<0, 1, 2>>

\* The length of the longest proper prefix of p[0..k] that is also its suffix.
LongestBorder(p, k) ==
    LET borders == {m \in 0..k : Slice(p, 0, m) = Slice(p, k + 1 - m, k + 1)}
    IN  CHOOSE m \in borders : \A n \in borders : n <= m

\* C2: compute_lps_array(pattern) has the length of the pattern, F[0] = 0,
\* and F[k] is the length of the longest proper prefix of pattern[0..k]
\* that is also a suffix of it (so F[k] <= k).
C2_LpsIsFailureFunction ==
    (pc \in {"kmp_loop", "kmp_done"} /\ ~KmpGuard(pattern, text)) =>
        /\ Len(lps) = Len(pattern)
        /\ lps[1] = 0
        /\ \A k \in 0..(Len(pattern) - 1) :
               lps[k + 1] = LongestBorder(pattern, k) /\ lps[k + 1] <= k

\* The table of "aaba" is [0, 1, 0, 1].
C2_Witness ==
    /\ pc = "kmp_loop"
    /\ pattern = <<"a", "a", "b", "a">>
    /\ lps = <<0, 1, 0, 1>>

\* C3: kmp_search returns the empty list, without raising, whenever the
\* pattern is empty or the text is empty.
C3_EmptyInputEmptyResult ==
    (pc = "kmp_done" /\ (pattern = <<>> \/ text = <<>>)) =>
        matches = <<>> /\ ~raised

\* The search of the empty pattern in a non-empty text has returned.
C3_Witness ==
    /\ pc = "kmp_done"
    /\ pattern = <<>>
    /\ text = <<"a", "b">>
    /\ matches = <<>>

(***************************************************************************)
(* Claims about plagiarism_score.                                          *)
(***************************************************************************)
\* C4: word-based similarity is symmetric under swapping the two documents.
C4_WordBasedSymmetric ==
    (pc = "score_done" /\ method = "word_based") =>
        score.similarity_percentage =
            plagiarism_score(text2, text1, "word_based").similarity_percentage

\* C5: line-based similarity is symmetric under swapping the two documents.
C5_LineBasedSymmetric ==
    (pc = "score_done" /\ method = "line_based") =>
        score.similarity_percentage =
            plagiarism_score(text2, text1, "line_based").similarity_percentage

\* C6: char-based windowed similarity is symmetric under swapping the two
\* documents, cleaned texts of equal length included.
C6_CharBasedSymmetric ==
    (pc = "score_done" /\ method = "char_based") =>
        score.similarity_percentage =
            plagiarism_score(text2, text1, "char_based").similarity_percentage

\* Two texts of equal length whose cleaned forms differ in length and share
\* a window have been scored, and the score is not zero.
C6_Witness ==
    /\ pc = "score_done"
    /\ method = "char_based"
    /\ text1 = <<"A", Space, "b", "a", "b", "a", "b">>
    /\ text2 = <<"b", "a", "b", "a", "b", "a", "b">>
    /\ score.similarity_percentage = 7143

\* C7: a method tag that is none of word_based, char_based, line_based
\* gives, for every pair of texts (empty ones included), the record that
\* word_based gives: percentage, segment count and method field.
C7_UnknownTagIsWordBased ==
    (pc = "score_done" /\ method = "unknown") =>
        score = plagiarism_score(text1, text2, "word_based")

\* A text is non-trivial: at least one non-blank line and at least 3 words.
NonTrivial(t) ==
    /\ CleanLines(SplitLines(Strip(t))) # <<>>
    /\ Len(Split(Lower(t))) >= 3

UsableFiles == {f \in DOMAIN decrypted : Usable(decrypted[f])}

\* C9: run on n >= 2 usable documents the comparator returns exactly
\* n * (n - 1) / 2 results, one for each unordered pair of distinct
\* documents: no pair twice, no document paired with itself; on exactly 2
\* documents exactly 1 result.
C9_OneResultPerUnorderedPair ==
    (pc = "check_done" /\ Cardinality(UsableFiles) >= 2) =>
        LET n == Cardinality(UsableFiles)
            rows == results.rows
        IN  /\ results.returned = "list"
            /\ 2 * Len(rows) = n * (n - 1)
            /\ n = 2 => Len(rows) = 1
            /\ \A k \in 1..Len(rows) : rows[k].file1 # rows[k].file2
            /\ \A a, b \in 1..Len(rows) :
                   a # b => {rows[a].file1, rows[a].file2} # {rows[b].file1, rows[b].file2}
            /\ {{rows[k].file1, rows[k].file2} : k \in 1..Len(rows)} =
                   {p \in SUBSET UsableFiles : Cardinality(p) = 2}

\* Three usable documents beside an unreadable one have been compared and
\* three results returned.
C9_Witness ==
    /\ pc = "check_done"
    /\ Cardinality(DOMAIN decrypted) = 4
    /\ Cardinality(UsableFiles) = 3
    /\ Len(results.rows) = 3

\* C10: the status label is a function of the similarity with thresholds
\* inclusive at the lower bound (below 20 MINIMAL, 20 to below 50 LOW, 50
\* to below 80 MEDIUM, 80 and above HIGH), and the API and the CLI give
\* every value the same label.
C10_StatusThresholds ==
    pc = "status_done" =>
        /\ api_status = cli_status.label
        /\ (similarity < 2000) = (api_status = "MINIMAL")
        /\ (similarity >= 2000 /\ similarity < 5000) = (api_status = "LOW")
        /\ (similarity >= 5000 /\ similarity < 8000) = (api_status = "MEDIUM")
        /\ (similarity >= 8000) = (api_status = "HIGH")

\* 80.00 has been labelled HIGH by both.
C10_Witness ==
    /\ pc = "status_done"
    /\ similarity = 8000
    /\ api_status = "HIGH"
    /\ cli_status.label = "HIGH"

(***************************************************************************)
(* Claims about the scores of the three methods.                           *)
(***************************************************************************)
\* The words and the lines of a document, case-folded and trimmed.
WordsOf(t) == {Split(Lower(t))[k] : k \in 1..Len(Split(Lower(t)))}
LinesOf(t) ==
    {CleanLines(SplitLines(t))[k] : k \in 1..Len(CleanLines(SplitLines(t)))}

\* The two documents share no word and no line.
NothingShared ==
    /\ WordsOf(text1) \cap WordsOf(text2) = {}
    /\ LinesOf(text1) \cap LinesOf(text2) = {}

\* C11: for two documents that share no word and no line, word_based
\* similarity is 0.0.
C11_NothingSharedWordBasedZero ==
    (pc = "score_done" /\ method = "word_based" /\ NothingShared) =>
        score.similarity_percentage = 0

\* Two documents of three words each, without a common word, one of whose
\* words holds a word of the other, have been scored.
C11_Witness ==
    /\ pc = "score_done"
    /\ method = "word_based"
    /\ text1 = <<"a", Space, "a", Newline, "a">>
    /\ text2 = <<"a", "b", Space, "b", Space, "a", "b">>
    /\ NothingShared
    /\ score.similarity_percentage = 0

\* C12: for two documents that share no word and no line, line_based
\* similarity is 0.0 and its common-segment count is 0.
C12_NothingSharedLineBasedZero ==
    (pc = "score_done" /\ method = "line_based" /\ NothingShared) =>
        score.similarity_percentage = 0 /\ score.common_segments = 0

\* The lines of text1 that _line_based_similarity counts as matched: those
\* that occur in the lines of text2 joined by newlines.
MatchedLineCount ==
    LET lines1 == CleanLines(SplitLines(text1))
        joined2 == Join(CleanLines(SplitLines(text2)), <<Newline>>)
    IN  Cardinality({k \in 1..Len(lines1) : Contains(lines1[k], joined2)})

MaxLineCount ==
    Max(Len(CleanLines(SplitLines(text1))), Len(CleanLines(SplitLines(text2))))

\* C13: line_based similarity is (matched lines of A) / max(lineCount(A),
\* lineCount(B)) * 100 rounded to 2 decimals (within half a hundredth of the
\* quotient), and common_segments is the matched-line count; the scenario
\* "Hello world\nFoo bar" against "Hello world\nBaz qux" gives 50.0 and 1.
C13_LineBasedFormula ==
    (pc = "score_done" /\ method = "line_based" /\ MaxLineCount > 0
        /\ text1 # <<>> /\ text2 # <<>>) =>
        LET diff == score.similarity_percentage * MaxLineCount - 10000 * MatchedLineCount
        IN  /\ score.common_segments = MatchedLineCount
            /\ 2 * diff <= MaxLineCount
            /\ -2 * diff <= MaxLineCount
            /\ (text1 = HelloFoo /\ text2 = HelloBaz) =>
                   score.similarity_percentage = 5000 /\ score.common_segments = 1

\* The scenario has been scored.
C13_Witness ==
    /\ pc = "score_done"
    /\ method = "line_based"
    /\ text1 = HelloFoo
    /\ text2 = HelloBaz
    /\ score.similarity_percentage = 5000
    /\ score.common_segments = 1

\* C20: in line_based a line of A counts as matched only if it is equal to
\* some line of B: common_segments is the number of lines of A that are
\* lines of B.
C20_OnlyEqualLinesCounted ==
    (pc = "score_done" /\ method = "line_based") =>
        LET lines1 == CleanLines(SplitLines(text1))
            lines2 == CleanLines(SplitLines(text2))
        IN  score.common_segments =
                Cardinality({k \in 1..Len(lines1) : InList(lines1[k], lines2)})

\* The quantities the word_based combination is made of, for text1 and text2.
MatchedLines ==
    LET lines1 == CleanLines(SplitLines(text1))
        lines2 == CleanLines(SplitLines(text2))
    IN  Cardinality({k \in 1..Len(lines1) : \E n \in 1..Len(lines2) : lines1[k] = lines2[n]})

AcceptedNgrams == common_sequences(Split(Lower(text1)), Split(Lower(text2)))

\* min(100, totalCommonWords / harmonicMean(|A|, |B|) * 100) as <<num, den>>.
SequenceScore(ngrams) ==
    LET n1 == Len(Split(Lower(text1)))
        n2 == Len(Split(Lower(text2)))
        total == SumWords(ngrams)
    IN  IF total * (n1 + n2) >= 2 * n1 * n2 THEN <<100, 1>>
        ELSE <<100 * total * (n1 + n2), 2 * n1 * n2>>

\* |distinct words in both| / |distinct words in either| * 100 as <<num, den>>.
WordOverlapScore ==
    <<100 * Cardinality(WordsOf(text1) \cap WordsOf(text2)),
      Cardinality(WordsOf(text1) \cup WordsOf(text2))>>

\* The combined score as <<num, den>>, clamped to at most 100.
CombinedScore(ngrams) ==
    LET seq == SequenceScore(ngrams)
        overlap == WordOverlapScore
        matched == MatchedLines
        combined ==
            IF matched > 0
            THEN <<700 * matched * seq[2] + 3 * seq[1] * MaxLineCount,
                   10 * MaxLineCount * seq[2]>>
            ELSE IF seq[1] * overlap[2] >= overlap[1] * seq[2] THEN seq ELSE overlap
    IN  IF combined[1] > 100 * combined[2] THEN <<100, 1>> ELSE combined

\* C14: the word_based score is 0.7 * lineScore + 0.3 * sequenceScore when a
\* line matches exactly and max(sequenceScore, wordOverlapScore) otherwise,
\* clamped to at most 100 and rounded to 2 decimals (within half a hundredth
\* of the clamped value); common_segments is the number of accepted n-grams.
C14_WordBasedCombination ==
    (pc = "score_done" /\ method = "word_based" /\ WordsOf(text1) # {} /\ WordsOf(text2) # {}) =>
        LET ngrams == AcceptedNgrams
            final == CombinedScore(ngrams)
            diff == score.similarity_percentage * final[2] - 100 * final[1]
        IN  /\ 2 * diff <= final[2]
            /\ -2 * diff <= final[2]
            /\ score.similarity_percentage <= 10000
            /\ score.common_segments = Len(ngrams)

\* "a\na a" against "a a\nab": one of two lines matches and the 3-gram
\* "a a a" is found in "a a ab", 0.7 * 50 + 0.3 * 100 = 65.0.
C14_Witness ==
    /\ pc = "score_done"
    /\ method = "word_based"
    /\ text1 = <<"a", Newline, "a", Space, "a">>
    /\ text2 = <<"a", Space, "a", Newline, "a", "b">>
    /\ MatchedLines = 1
    /\ MaxLineCount = 2
    /\ Len(AcceptedNgrams) = 1
    /\ SequenceScore(AcceptedNgrams) = <<100, 1>>
    /\ score.similarity_percentage = 6500
    /\ score.common_segments = 1

\* The length of the longest common substring of the two cleaned texts.
LongestCommon ==
    LET c1 == CleanText(text1)
        c2 == CleanText(text2)
        lengths == {n \in 0..Len(c1) :
                       \E k \in 0..(Len(c1) - n) : Contains(Slice(c1, k, k + n), c2)}
    IN  CHOOSE n \in lengths : \A m \in lengths : m <= n

\* C15: with L the length of the longest common substring of the cleaned
\* texts, char_based similarity is min(L, 50) / max(len(cleanedA),
\* len(cleanedB)) * 100 (rounded to 2 decimals) when L >= 5, and 0.0 when
\* no common substring of length >= 5 exists.
C15_CharBasedLongestCommon ==
    (pc = "score_done" /\ method = "char_based"
        /\ CleanText(text1) # <<>> /\ CleanText(text2) # <<>>) =>
        LET longer == Max(Len(CleanText(text1)), Len(CleanText(text2)))
            tracked == Min(LongestCommon, max_window)
            diff == score.similarity_percentage * longer - 10000 * tracked
        IN  IF LongestCommon >= min_length
            THEN 2 * diff <= longer /\ -2 * diff <= longer
            ELSE score.similarity_percentage = 0

\* C16: for every pair of texts and every method tag the percentage
\* plagiarism_score returns lies in [0, 100] and the common-segment count
\* is not negative.
C16_ScoreInRange ==
    (pc = "score_done") =>
        /\ score.similarity_percentage \in 0..10000
        /\ score.common_segments \in Nat

\* Both lines of "a\na" are found in "a": the percentage is at its upper
\* limit, 2 of max(2, 1) lines.
C16_Witness ==
    /\ pc = "score_done"
    /\ method = "line_based"
    /\ text1 = <<"a", Newline, "a">>
    /\ text2 = <<"a">>
    /\ score.similarity_percentage = 10000
    /\ score.common_segments = 2

\* C17: the list the comparator returns is sorted by similarity in
\* non-increasing order.
C17_ResultsSortedDescending ==
    (pc = "check_done" /\ results.returned = "list") =>
        \A k \in 1..(Len(results.rows) - 1) :
            results.rows[k].similarity >= results.rows[k + 1].similarity

\* A list of at least three results of different similarities has been
\* returned for a listing whose rows were not computed in that order.
C17_Witness ==
    /\ pc = "check_done"
    /\ Len(results.rows) >= 3
    /\ results.rows[1].similarity > results.rows[Len(results.rows)].similarity
    /\ \E listing \in Listings(decrypted) :
           /\ results = run_plagiarism_check(decrypted, listing, method)
           /\ results.rows #
                  ResultRows(decrypted, combinations2(file_names(decrypted, listing)), method)

\* C18: with fewer than 2 usable documents (fewer than 2 files found, or
\* fewer than 2 whose text could be loaded) the comparison fails as a whole:
\* the comparator returns no list and no row, and a report request with
\* fewer than 2 files, or whose comparator returned no list, is answered by
\* an error without comparisons.
C18_TooFewDocumentsFails ==
    /\ (pc = "check_done" /\ Cardinality(UsableFiles) < 2) =>
           results.returned = "None" /\ results.rows = <<>>
    /\ (pc = "report_done" /\ encrypted_files < 2) =>
           /\ response.code = 400
           /\ response.comparisons = <<>>
           /\ results.returned = "None" /\ results.rows = <<>>
    /\ (pc = "report_done" /\ results.returned = "None") =>
           response.code \in {400, 500} /\ response.comparisons = <<>>

\* Three files were found and only one of them could be used: nothing is
\* returned.
C18_Witness ==
    /\ pc = "check_done"
    /\ Cardinality(DOMAIN decrypted) = 3
    /\ Cardinality(UsableFiles) = 1
    /\ results.returned = "None"

Unloadable == {f \in DOMAIN decrypted : ~load_file_content(decrypted[f]).ok}

\* C19: a document whose text cannot be loaded is in no result, and as long
\* as at least 2 usable documents remain the batch is not aborted: every
\* unordered pair of them is scored.
C19_UnloadableExcluded ==
    (pc = "check_done") =>
        /\ \A k \in 1..Len(results.rows) :
               results.rows[k].file1 \notin Unloadable /\ results.rows[k].file2 \notin Unloadable
        /\ Cardinality(UsableFiles) >= 2 =>
               /\ results.returned = "list"
               /\ \A a, b \in UsableFiles :
                      a # b => \E k \in 1..Len(results.rows) :
                                   {results.rows[k].file1, results.rows[k].file2} = {a, b}

\* Two files could not be loaded and the two others have been compared.
C19_Witness ==
    /\ pc = "check_done"
    /\ Cardinality(Unloadable) = 2
    /\ Cardinality(UsableFiles) = 2
    /\ results.returned = "list"
    /\ Len(results.rows) = 1

(***************************************************************************)
(* Claims about the extraction of the common word sequences.               *)
(***************************************************************************)
\* The token run xs is a contiguous run of the token stream ys.
IsRunOf(xs, ys) ==
    \E k \in 0..(Len(ys) - Len(xs)) : Slice(ys, k, k + Len(xs)) = xs

\* C21: within one word_based run no accepted n-gram is contained in
\* another accepted n-gram: the lengths are accepted longest first, an
\* n-gram accepted later is never a substring of one accepted before it,
\* the accepted list has no duplicate and no n-gram that is a run of the
\* tokens of another.
C21_NoNestedNgrams ==
    (pc = "score_done" /\ method = "word_based") =>
        LET accepted == AcceptedNgrams
        IN  \A p, q \in 1..Len(accepted) :
                p < q =>
                    /\ Len(Split(accepted[p])) >= Len(Split(accepted[q]))
                    /\ ~Contains(accepted[q], accepted[p])
                    /\ accepted[p] # accepted[q]
                    /\ ~IsRunOf(Split(accepted[q]), Split(accepted[p]))
                    /\ ~IsRunOf(Split(accepted[p]), Split(accepted[q]))

\* "a b b a b" against "b a b b a": the 4-gram "a b b a" is accepted, its
\* 3-grams are discarded and the 3-gram "b a b" that leaves it is accepted.
C21_Witness ==
    /\ pc = "score_done"
    /\ method = "word_based"
    /\ text1 = <<"a", Space, "b", Space, "b", Space, "a", Space, "b">>
    /\ text2 = <<"b", Space, "a", Space, "b", Space, "b", Space, "a">>
    /\ Len(AcceptedNgrams) = 2
    /\ Len(Split(AcceptedNgrams[1])) = 4
    /\ Len(Split(AcceptedNgrams[2])) = 3
    /\ score.common_segments = 2

\* The positions of the token stream ys that the first run of xs in it
\* covers: an n-gram is accepted where it first stands in document A.
CoveredBy(xs, ys) ==
    LET starts == {k \in 0..(Len(ys) - Len(xs)) : Slice(ys, k, k + Len(xs)) = xs}
        first == CHOOSE k \in starts : \A m \in starts : k <= m
    IN  IF starts = {} THEN {} ELSE first..(first + Len(xs) - 1)

\* C22: the accepted n-grams are non-overlapping: no two of them cover a
\* common token position of document A, so totalCommonWords counts no word
\* of A more than once and is at most the number of words of A.
C22_NgramsNonOverlapping ==
    (pc = "score_done" /\ method = "word_based") =>
        LET accepted == AcceptedNgrams
            words1 == Split(Lower(text1))
        IN  /\ \A p, q \in 1..Len(accepted) :
                   p # q => CoveredBy(Split(accepted[p]), words1)
                                \cap CoveredBy(Split(accepted[q]), words1) = {}
            /\ SumWords(accepted) <= Len(words1)

\* C23: every accepted n-gram is a common word n-gram of both token
\* streams: a run of L tokens of A, 3 <= L <= 8, that is also a run of L
\* whole tokens of B.
C23_NgramsOfBothTokenStreams ==
    (pc = "score_done" /\ method = "word_based") =>
        LET accepted == AcceptedNgrams
            words1 == Split(Lower(text1))
            words2 == Split(Lower(text2))
        IN  \A p \in 1..Len(accepted) :
                /\ Len(Split(accepted[p])) \in min_seq_length..max_seq_length
                /\ IsRunOf(Split(accepted[p]), words1)
                /\ IsRunOf(Split(accepted[p]), words2)

(***************************************************************************)
(* Claims about the steps of the search and the totality of the scores.    *)
(***************************************************************************)
\* While the loop runs the indices are in range: pattern[j] can be read.
KmpIndicesInRange ==
    /\ ~raised
    /\ pc = "kmp_loop" =>
           /\ i \in 0..Len(text)
           /\ j \in 0..(Len(pattern) - 1)
           /\ j <= i

\* One iteration of the loop: i does not decrease, i advances or j strictly
\* decreases, and 2 * i - j, which is at most 2 * len(text), grows.
KmpStepProgress ==
    (pc = "kmp_loop" /\ pc' = "kmp_loop") =>
        /\ i' >= i
        /\ i' > i \/ j' < j
        /\ 2 * i' - j' > 2 * i - j
        /\ 2 * i' - j' <= 2 * Len(text)

\* C24: kmp_search never backtracks in the text and always terminates: i
\* never decreases, every step of the loop advances i or strictly decreases
\* j, pattern[j] is read with 0 <= j < len(pattern) only, and the call
\* returns, after at most 2 * len(text) iterations.
C24_NoBacktrackAndTermination ==
    /\ []KmpIndicesInRange
    /\ [][i' >= i /\ KmpStepProgress]_vars
    /\ <>(pc = "kmp_done")

\* The search of "aab" in "aaaab" is in its loop after a mismatch at j = 2
\* moved j back to lps[1] = 1 and left i at 2.
C24_Witness ==
    /\ pc = "kmp_loop"
    /\ pattern = <<"a", "a", "b">>
    /\ text = <<"a", "a", "a", "a", "b">>
    /\ i = 2
    /\ j = 1

\* C25: every scoring operation is total: for any two strings (empty,
\* whitespace-only, single-word and blank-line-only ones included) and any
\* method tag plagiarism_score never raises and returns a record of a
\* percentage, a segment count and a method.
C25_ScoringIsTotal ==
    /\ pc # "score_raised"
    /\ pc = "score_call" => ~plagiarism_score_raises(text1, text2, method)
    /\ pc = "score_done" =>
           /\ DOMAIN score = {"similarity_percentage", "common_segments", "method"}
           /\ score.similarity_percentage \in Nat
           /\ score.common_segments \in Nat
           /\ score.method \in Methods

\* A text of blank lines only has been scored against a single word by
\* lines: no line, no division, the zero record.
C25_Witness ==
    /\ pc = "score_done"
    /\ text1 = <<Newline, Newline>>
    /\ text2 = <<"a">>
    /\ method = "line_based"
    /\ score = ZeroScore("line_based")

=============================================================================
